---- MODULE Spec2Model ----
(***************************************************************************)
(* Model of fs/memfs/tree.go: the CustomTree.Tree builder and the two      *)
(* line parsers Unix and Tab.                                              *)
(*                                                                         *)
(* A byte slice is a sequence of glyphs.  Every glyph is one UTF-8 encoded *)
(* character of the input: "sp" U+0020, "nb" U+00A0, "tab" U+0009, "nl"    *)
(* U+000A, "vt" U+2502, "tee" U+251C, "up" U+2514, "hz" U+2500, "sl" '/',  *)
(* "dot" '.', "a" and "b" ordinary letters.  The byte searches of the code *)
(* (bytes.Count, bytes.Index, bytes.LastIndex) only ever match on glyph    *)
(* boundaries of valid UTF-8, so they are computed per glyph; len() and    *)
(* p[depth:] are computed in bytes through Width.                          *)
(***************************************************************************)
EXTENDS Integers, Sequences, FiniteSets, TLC

\* ------------------------------------------------------------------ bounds
MaxLines == 3
MaxDepth == 2

\* ------------------------------------------------------------ byte helpers
Width(g) == IF g \in {"vt", "tee", "up", "hz"} THEN 3 ELSE IF g = "nb" THEN 2 ELSE 1

RECURSIVE ByteLen(_)
ByteLen(p) == IF p = <<>> THEN 0 ELSE Width(Head(p)) + ByteLen(Tail(p))

IsSpace(g) == g \in {"sp", "nb", "tab", "nl"}

RECURSIVE TrimRightFunc(_)
TrimRightFunc(p) ==
  IF p # <<>> /\ IsSpace(p[Len(p)]) THEN TrimRightFunc(SubSeq(p, 1, Len(p) - 1)) ELSE p

RECURSIVE TrimLeftFunc(_)
TrimLeftFunc(p) ==
  IF p # <<>> /\ IsSpace(Head(p)) THEN TrimLeftFunc(Tail(p)) ELSE p

TrimSpace(p) == TrimLeftFunc(TrimRightFunc(p))

Count(p, g) == Cardinality({i \in 1..Len(p) : p[i] = g})

\* 0-based index of the first / last occurrence, -1 when there is none
Index(p, g) ==
  IF \E i \in 1..Len(p) : p[i] = g
  THEN (CHOOSE i \in 1..Len(p) : p[i] = g /\ \A j \in 1..(i - 1) : p[j] # g) - 1
  ELSE -1

LastIndex(p, g) ==
  IF \E i \in 1..Len(p) : p[i] = g
  THEN (CHOOSE i \in 1..Len(p) : p[i] = g /\ \A j \in (i + 1)..Len(p) : p[j] # g) - 1
  ELSE -1

\* p[n:] with n a glyph offset
SliceFrom(p, n) == SubSeq(p, n + 1, Len(p))

\* p[n:] with n a byte offset; an offset inside a glyph leaves its tail bytes,
\* written as the glyph "cut"
RECURSIVE SliceBytes(_, _)
SliceBytes(p, n) ==
  IF n = 0 \/ p = <<>> THEN p
  ELSE IF Width(Head(p)) <= n THEN SliceBytes(Tail(p), n - Width(Head(p)))
  ELSE <<"cut">> \o Tail(p)

HasSuffix(p, g) == p # <<>> /\ p[Len(p)] = g

RECURSIVE TrimRight(_, _)
TrimRight(p, g) ==
  IF HasSuffix(p, g) THEN TrimRight(SubSeq(p, 1, Len(p) - 1), g) ELSE p

max(i, j) == IF i > j THEN i ELSE j

\* -------------------------------------------------------------- error values
Nil              == [kind |-> "nil", line |-> <<>>]
EOF              == [kind |-> "EOF", line |-> <<>>]
ErrUnexpectedEOF == [kind |-> "ErrUnexpectedEOF", line |-> <<>>]
ErrRead          == [kind |-> "read", line |-> <<>>]
SyntaxError(p)   == [kind |-> "syntax", line |-> p]

\* ------------------------------------------------------------- line parsers
Unix(p) ==
  LET d == (Count(p, "sp") + Count(p, "nb") + Count(p, "vt")) \div 4
      n == LastIndex(p, "hz")
  IN IF n = -1
     THEN [depth |-> d, name |-> <<>>, err |-> SyntaxError(p)]
     ELSE LET nm == SliceFrom(p, n)
              m  == Index(nm, "sp")
          IN IF m = -1
             THEN [depth |-> d, name |-> nm, err |-> SyntaxError(p)]
             ELSE [depth |-> d, name |-> SliceFrom(nm, m + 1), err |-> Nil]

Tab(p) ==
  LET d == Count(p, "tab")
  IN [depth |-> d, name |-> SliceBytes(p, d), err |-> Nil]

Parse(c, p) == IF c = "Unix" THEN Unix(p) ELSE Tab(p)

\* ------------------------------------------------- the memfs tree (heap)
\* A Directory is a Go map, a reference: heap[id] is the map of directory id,
\* from entry name to node.  fs.Tree is the directory allocated first.
FsTree == 1

EmptyDirectory == [k \in {} |-> 0]
FileNode       == [kind |-> "File", id |-> 0]
DirNode(id)    == [kind |-> "Directory", id |-> id]

\* mutant of Put: an entry that exists already is kept
Put_KeepFirst(m, key, v) ==
  IF key \in DOMAIN m THEN m
  ELSE [k \in (DOMAIN m) \cup {key} |-> IF k = key THEN v ELSE m[k]]

\* m[key] = v
Put(m, key, v) == [k \in (DOMAIN m) \cup {key} |-> IF k = key THEN v ELSE m[k]]

\* heap after the map of directory d gets key |-> v
Store(h, d, key, v) == [h EXCEPT ![d] = Put(h[d], key, v)]

ErrPath == [kind |-> "path", line |-> <<>>]

RECURSIVE Split(_)
Split(p) ==
  LET i == Index(p, "sl")
  IN IF i = -1 THEN <<p>> ELSE <<SubSeq(p, 1, i)>> \o Split(SliceFrom(p, i + 1))

Segments(p) == SelectSeq(Split(p), LAMBDA s : s # <<>> /\ s # <<"dot">>)

\* fs.MkdirAll: create the directory and all missing ancestors
RECURSIVE MkdirAllFrom(_, _, _)
MkdirAllFrom(h, cur, segs) ==
  IF segs = <<>> THEN [heap |-> h, err |-> Nil]
  ELSE IF Head(segs) \in DOMAIN h[cur]
       THEN IF h[cur][Head(segs)].kind = "Directory"
            THEN MkdirAllFrom(h, h[cur][Head(segs)].id, Tail(segs))
            ELSE [heap |-> h, err |-> ErrPath]
       ELSE LET new == Len(h) + 1
            IN MkdirAllFrom(Append(Store(h, cur, Head(segs), DirNode(new)), EmptyDirectory),
                            new, Tail(segs))

MkdirAll(h, p) == MkdirAllFrom(h, FsTree, Segments(p))

\* fs.lookup: resolve a path to its Directory
RECURSIVE lookupFrom(_, _, _)
lookupFrom(h, cur, segs) ==
  IF segs = <<>> THEN [dir |-> cur, err |-> Nil]
  ELSE IF Head(segs) \in DOMAIN h[cur] /\ h[cur][Head(segs)].kind = "Directory"
       THEN lookupFrom(h, h[cur][Head(segs)].id, Tail(segs))
       ELSE [dir |-> 0, err |-> ErrPath]

lookup(h, p) == lookupFrom(h, FsTree, Segments(p))

\* ---------------------------------------------------------- input streams
\* A stream is the sequence of results its successive ReadBytes('\n') calls
\* give: data (with the trailing "nl" when the delimiter was found) and the
\* read error.  Past its last chunk the stream gives no data and io.EOF.
Chunk(data, err) == [data |-> data, err |-> err]

UnitSp == <<"sp", "sp", "sp", "sp">>
UnitVt == <<"vt", "nb", "nb", "sp">>

RECURSIVE Indent(_)
Indent(d) == IF d = 0 THEN <<>> ELSE IF d = 1 THEN UnitSp ELSE UnitVt \o Indent(d - 1)

Connector(d) == IF d % 2 = 0 THEN <<"tee", "hz", "hz", "sp">> ELSE <<"up", "hz", "hz", "sp">>

UnixLine(d, nm) == Indent(d) \o Connector(d) \o nm

\* a name with three spaces in it
UnixSpaced == UnixLine(0, <<"a", "sp", "a", "sp", "a", "sp", "b">>)

UnixWellFormed ==
  {UnixLine(d, <<"a">>) : d \in 0..MaxDepth} \cup {UnixLine(d, <<"b", "sl">>) : d \in 0..1}
    \cup {UnixSpaced}

\* no connector (no indentation, one level of it), no space after the connector
UnixMalformed == {<<"a">>, UnitSp \o <<"b">>, <<"up", "hz", "hz", "a">>}

RECURSIVE Tabs(_)
Tabs(d) == IF d = 0 THEN <<>> ELSE <<"tab">> \o Tabs(d - 1)

TabLine(d, nm) == Tabs(d) \o nm

TabWellFormed ==
  {TabLine(d, <<"a">>) : d \in 0..MaxDepth} \cup {TabLine(d, <<"b", "sl">>) : d \in 0..1}

\* a tab inside the name
TabOdd == {<<"a", "tab", "b">>}

Lines(c) ==
  IF c = "Unix" THEN UnixWellFormed \cup UnixMalformed \cup {<<"sp">>}
  ELSE TabWellFormed \cup TabOdd \cup {<<"tab">>}

\* lines that may end the stream without a newline
LastLines(c) ==
  IF c = "Unix" THEN {UnixLine(0, <<"a">>), UnixLine(1, <<"b", "sl">>), <<"sp">>}
  ELSE {TabLine(0, <<"a">>), TabLine(1, <<"b", "sl">>), <<"tab">>}

\* a read that fails with no data, and one that fails after some data; the
\* reader keeps failing afterwards, so these end the stream
FailChunks(c) ==
  {Chunk(<<>>, ErrRead),
   Chunk(IF c = "Unix" THEN UnixLine(1, <<"a">>) ELSE TabLine(1, <<"a">>), ErrRead)}

MidChunks(c)  == {Chunk(l \o <<"nl">>, Nil) : l \in Lines(c)}
LastChunks(c) == {Chunk(l, EOF) : l \in LastLines(c)} \cup FailChunks(c)

Bodies(c) ==
  UNION {{b \in [1..k -> MidChunks(c) \cup LastChunks(c)] :
            \A i \in 1..(k - 1) : b[i] \in MidChunks(c)} : k \in 0..MaxLines}

RootOK   == {Chunk(<<"dot", "nl">>, Nil), Chunk(<<"a", "sl", "b", "nl">>, Nil)}
RootFail == {Chunk(<<"dot">>, EOF), Chunk(<<"a", "sl", "b">>, EOF),
             Chunk(<<"dot">>, ErrRead), Chunk(<<>>, ErrRead)}

Streams(c) ==
  {<<>>} \cup {<<r>> : r \in RootFail} \cup {<<r>> \o b : r \in RootOK, b \in Bodies(c)}

\* buf.ReadBytes('\n') on the stream s of which n chunks are consumed
ReadBytes(s, n) ==
  IF n < Len(s) THEN [line |-> s[n + 1].data, err |-> s[n + 1].err, pos |-> n + 1]
  ELSE IF s # <<>> /\ s[Len(s)].err = ErrRead THEN [line |-> <<>>, err |-> ErrRead, pos |-> n]
  ELSE [line |-> <<>>, err |-> EOF, pos |-> n]

\* io.Copy(ioutil.Discard, buf): reads on until end of stream or a read error
RECURSIVE Discard(_, _)
Discard(s, n) ==
  IF n >= Len(s) THEN n
  ELSE IF s[n + 1].err # Nil THEN n + 1 ELSE Discard(s, n + 1)

\* ------------------------------------------------------------------- state
VARIABLES
  ct,         \* the CustomTree callback the build runs with: "Unix" or "Tab"
  input,      \* the stream handed to Tree, as its chunks
  pos,        \* number of chunks of input consumed so far
  pc,         \* "start", "loop", "done" (returned) or "panic"
  heap,       \* the Directory maps allocated so far; heap[FsTree] is fs.Tree
  dir,        \* the directory being populated
  glob,       \* the ancestor stack
  line,       \* the line read last
  name, prevName, depth, prevDepth,
  err,        \* the error result
  calls,      \* history: the invocations of the callback, in order
  ins,        \* history: the insertions dir[name] = value, in order
  paths       \* history: the paths fs.MkdirAll was called with, in order

vars == <<ct, input, pos, pc, heap, dir, glob, line, name, prevName, depth,
          prevDepth, err, calls, ins, paths>>

Init ==
  /\ ct \in {"Unix", "Tab"}
  /\ input \in Streams(ct)
  /\ pos = 0
  /\ pc = "start"
  /\ heap = <<EmptyDirectory>>
  /\ dir = FsTree
  /\ glob = <<>>
  /\ line = <<>>
  /\ name = <<>>
  /\ prevName = <<>>
  /\ depth = 0
  /\ prevDepth = 0
  /\ err = Nil
  /\ calls = <<>>
  /\ ins = <<>>
  /\ paths = <<>>

\* ---------------------------------------------------------- the root line
\* mutant of RootEOF: the end-of-stream test on the first read is forgotten
RootEOF_LenOnly(ln, e) == ByteLen(ln) = 0

\* len(line) == 0 || err == io.EOF
RootEOF(ln, e) == ByteLen(ln) = 0 \/ e = EOF

\* len(line) != 1 || line[0] != '.'
RootIsPath(ln) == ByteLen(ln) # 1 \/ ln[1] # "dot"

ReadRoot ==
  /\ pc = "start"
  /\ LET rd == ReadBytes(input, pos)
     IN /\ pos' = rd.pos
        /\ line' = rd.line
        /\ paths' = IF ~RootEOF(rd.line, rd.err) /\ rd.err = Nil /\ RootIsPath(rd.line)
                     THEN Append(paths, TrimSpace(rd.line))
                     ELSE paths
        /\ IF RootEOF(rd.line, rd.err)
           THEN /\ err' = ErrUnexpectedEOF
                /\ pc' = "done"
                /\ UNCHANGED <<heap, dir, glob>>
           ELSE IF rd.err # Nil
           THEN /\ err' = rd.err
                /\ pc' = "done"
                /\ UNCHANGED <<heap, dir, glob>>
           ELSE IF RootIsPath(rd.line)
           THEN LET p  == TrimSpace(rd.line)
                    mk == MkdirAll(heap, p)
                    lk == lookup(mk.heap, p)
                IN /\ heap' = mk.heap
                   /\ IF mk.err # Nil
                      THEN /\ err' = mk.err
                           /\ pc' = "done"
                           /\ UNCHANGED <<dir, glob>>
                      ELSE IF lk.err # Nil
                      THEN /\ err' = lk.err
                           /\ pc' = "done"
                           /\ dir' = lk.dir
                           /\ UNCHANGED glob
                      ELSE /\ err' = Nil
                           /\ dir' = lk.dir
                           /\ glob' = Append(glob, lk.dir)
                           /\ pc' = "loop"
           ELSE /\ err' = Nil
                /\ glob' = Append(glob, dir)
                /\ pc' = "loop"
                /\ UNCHANGED <<heap, dir>>
  /\ UNCHANGED <<ct, input, name, prevName, depth, prevDepth, calls, ins>>

\* -------------------------------------------------------- the build loop
\* mutant of IsBlank: the line is not trimmed before its length is tested
IsBlank_Untrimmed(ln) == Len(ln) = 0

\* len(bytes.TrimSpace(line)) == 0
IsBlank(ln) == Len(TrimSpace(ln)) = 0

\* mutant of ParserArg: the callback gets the line as read
ParserArg_Raw(ln) == ln

\* the argument of the callback: bytes.TrimRightFunc(line, unicode.IsSpace)
ParserArg(ln) == TrimRightFunc(ln)

\* the name the buffered node is stored under
NodeName(pn) == IF HasSuffix(pn, "sl") THEN TrimRight(pn, "sl") ELSE pn

\* mutant of StoreValue: the trailing separator of the name is not looked at
StoreValue_AlwaysFile(h, d, pn) == Store(h, d, NodeName(pn), FileNode)

\* dir[name] = value, value a fresh Directory{} or a File{}
StoreValue(h, d, pn) ==
  IF HasSuffix(pn, "sl")
  THEN Store(Append(h, EmptyDirectory), d, NodeName(pn), DirNode(Len(h) + 1))
  ELSE Store(h, d, NodeName(pn), FileNode)

\* mutant of Descend: the new directory does not become the current one
Descend_StaysInDir(h, d, g, pn) ==
  [heap  |-> Store(Append(h, EmptyDirectory), d, NodeName(pn), DirNode(Len(h) + 1)),
   glob  |-> Append(g, d),
   dir   |-> d,
   panic |-> FALSE]

\* mutant of Descend: the new directory is pushed, not the current one
Descend_PushesNew(h, d, g, pn) ==
  [heap  |-> Store(Append(h, EmptyDirectory), d, NodeName(pn), DirNode(Len(h) + 1)),
   glob  |-> Append(g, Len(h) + 1),
   dir   |-> Len(h) + 1,
   panic |-> FALSE]

\* case depth > prevDepth
Descend(h, d, g, pn) ==
  [heap  |-> Store(Append(h, EmptyDirectory), d, NodeName(pn), DirNode(Len(h) + 1)),
   glob  |-> Append(g, d),
   dir   |-> Len(h) + 1,
   panic |-> FALSE]

\* case depth == prevDepth
Sibling(h, d, g, pn) ==
  [heap |-> StoreValue(h, d, pn), glob |-> g, dir |-> d, panic |-> FALSE]

\* case depth < prevDepth; glob[n] out of range panics before any assignment
Ascend(h, d, g, pn, dp, pd) ==
  LET n == max(Len(g) + dp - pd, 0)
  IN IF n >= Len(g)
     THEN [heap |-> h, glob |-> g, dir |-> d, panic |-> TRUE]
     ELSE [heap |-> StoreValue(h, d, pn), glob |-> SubSeq(g, 1, n), dir |-> g[n + 1],
           panic |-> FALSE]

\* mutant of Fold: the length of the buffered name is not tested
Fold_NoSkip(h, d, g, pn, dp, pd) ==
  IF dp > pd THEN Descend(h, d, g, pn)
  ELSE IF dp = pd THEN Sibling(h, d, g, pn)
  ELSE Ascend(h, d, g, pn, dp, pd)

\* the insertion of the node buffered by the previous iteration
Fold(h, d, g, pn, dp, pd) ==
  IF Len(pn) # 0
  THEN IF dp > pd THEN Descend(h, d, g, pn)
       ELSE IF dp = pd THEN Sibling(h, d, g, pn)
       ELSE Ascend(h, d, g, pn, dp, pd)
  ELSE [heap |-> h, glob |-> g, dir |-> d, panic |-> FALSE]

Iterate ==
  /\ pc = "loop"
  /\ LET rd    == ReadBytes(input, pos)
         blank == IsBlank(rd.line)
         r     == IF blank THEN [depth |-> depth, name |-> name, err |-> EOF]
                  ELSE Parse(ct, ParserArg(rd.line))
         ln    == IF blank THEN <<>> ELSE rd.line
         f     == Fold(heap, dir, glob, prevName, r.depth, prevDepth)
     IN /\ pos' = IF blank THEN Discard(input, rd.pos) ELSE rd.pos
        /\ line' = ln
        /\ depth' = r.depth
        /\ name' = r.name
        /\ calls' = IF blank THEN calls
                    ELSE Append(calls, [chunk |-> rd.pos, arg |-> ParserArg(rd.line), ret |-> r])
        /\ heap' = f.heap
        /\ dir' = f.dir
        /\ glob' = f.glob
        /\ ins' = IF Len(prevName) # 0 /\ ~f.panic
                  THEN Append(ins, [chunk  |-> pos,
                                    parent |-> dir,
                                    key    |-> NodeName(prevName),
                                    node   |-> f.heap[dir][NodeName(prevName)]])
                  ELSE ins
        /\ IF f.panic
           THEN /\ pc' = "panic"
                /\ err' = r.err
                /\ UNCHANGED <<prevName, prevDepth>>
           ELSE IF Len(ln) = 0
           THEN /\ pc' = "done"
                /\ err' = IF r.err = EOF THEN Nil ELSE r.err
                /\ UNCHANGED <<prevName, prevDepth>>
           ELSE /\ pc' = "loop"
                /\ err' = r.err
                /\ prevDepth' = r.depth
                /\ prevName' = r.name
  /\ UNCHANGED <<ct, input, paths>>

Next == ReadRoot \/ Iterate

Spec == Init /\ [][Next]_vars

\* ==================================================================== claims
\* Vocabulary of the claims, stated on the input stream and on the two
\* histories, independently of the operators of the build.
Whitespace == {"sp", "nb", "tab", "nl"}

WhitespaceOnly(p) == \A i \in 1..Len(p) : p[i] \in Whitespace

Returned == pc = "done"

\* the first read gave a newline-terminated root line
RootLineRead == Len(input) >= 1 /\ input[1].err = Nil /\ pos >= 1

\* index of the first body chunk with nothing but whitespace in it, if any
FirstBlank ==
  IF \E i \in 2..Len(input) : WhitespaceOnly(input[i].data)
  THEN CHOOSE i \in 2..Len(input) :
         /\ WhitespaceOnly(input[i].data)
         /\ \A j \in 2..(i - 1) : ~WhitespaceOnly(input[j].data)
  ELSE Len(input) + 1

\* the body chunks that hold a line of the tree
BodyLines == 2..(FirstBlank - 1)

\* the body line of chunk i, without its newline
LineOf(i) ==
  LET d == input[i].data
  IN IF d # <<>> /\ d[Len(d)] = "nl" THEN SubSeq(d, 1, Len(d) - 1) ELSE d

CallsOf(i) == {j \in 1..Len(calls) : calls[j].chunk = i}
InsOf(i)   == {j \in 1..Len(ins) : ins[j].chunk = i}

\* C1: whenever the line parser returns an error for a body line, the build
\* returns that error: the returned error is non-nil and is the parser's
\* syntax error.
C1_ParserErrorReturned ==
  (Returned /\ \E j \in 1..Len(calls) : calls[j].ret.err # Nil)
    => (err # Nil /\ \E j \in 1..Len(calls) : err = calls[j].ret.err)

\* C2: the build never crashes: on every ascent the clamped index n is a
\* valid index into the ancestor stack.  pc = "panic" is the state of a build
\* whose read glob[n] was out of range.
C2_AscentIndexInRange == pc # "panic"

\* C3: an empty input, or a stream whose first read hits end-of-stream, makes
\* the build return io.ErrUnexpectedEOF; the line parser is never invoked and
\* no node is inserted.
C3_FirstReadEOF ==
  ((pc # "start" /\ (input = <<>> \/ input[1].err = EOF))
     => /\ Returned
        /\ err = ErrUnexpectedEOF
        /\ calls = <<>>
        /\ ins = <<>>
        /\ heap = <<EmptyDirectory>>)

C3_Witness ==
  /\ Returned
  /\ input = <<Chunk(<<"dot">>, EOF)>>
  /\ err = ErrUnexpectedEOF

\* ---- the shape of the tree, read off the heap
SubDirs(h, x) == {h[x][k].id : k \in {k \in DOMAIN h[x] : h[x][k].kind = "Directory"}}

\* the directories n levels below directory r
RECURSIVE AtDepth(_, _, _)
AtDepth(h, r, n) ==
  IF n = 0 THEN {r} ELSE UNION {SubDirs(h, x) : x \in AtDepth(h, r, n - 1)}

InTree(h, r) == UNION {AtDepth(h, r, n) : n \in 0..Len(h)}

\* the directory the root line names: fs.Tree for ".", b for "a/b"
RootDir == IF LineOf(1) = <<"dot">> THEN FsTree ELSE heap[heap[FsTree][<<"a">>].id][<<"b">>].id

\* number of glyphs of S that p starts with
RECURSIVE LeadingCount(_, _)
LeadingCount(p, S) ==
  IF p # <<>> /\ Head(p) \in S THEN 1 + LeadingCount(Tail(p), S) ELSE 0

\* every body chunk is a whole line of the buffer (no read fails)
BodyFromBuffer == \A i \in 2..Len(input) : input[i].err \in {Nil, EOF}

\* ---- C4
IndentGlyphs == {"sp", "nb", "vt"}

UnixLevel(l) == LeadingCount(l, IndentGlyphs) \div 4

UnixLineWellFormed(l) ==
  LET k == LeadingCount(l, IndentGlyphs)
  IN /\ k % 4 = 0
     /\ Len(l) >= k + 5
     /\ l[k + 1] \in {"tee", "up"}
     /\ l[k + 2] = "hz" /\ l[k + 3] = "hz" /\ l[k + 4] = "sp"

UnixInputWellFormed ==
  /\ BodyFromBuffer
  /\ \A i \in 2..Len(input) : UnixLineWellFormed(LineOf(i))
  /\ Len(input) >= 2 => UnixLevel(LineOf(2)) = 0
  /\ \A i \in 2..(Len(input) - 1) : UnixLevel(LineOf(i + 1)) <= UnixLevel(LineOf(i)) + 1

\* the nearest line before line i that is one level above it
UnixParentLine(i) ==
  CHOOSE j \in 2..(i - 1) :
    /\ UnixLevel(LineOf(j)) = UnixLevel(LineOf(i)) - 1
    /\ \A k \in (j + 1)..(i - 1) : UnixLevel(LineOf(k)) # UnixLevel(LineOf(i)) - 1

\* line i was inserted once, into the directory that is the node of line j
InsertedUnder(i, j) ==
  /\ Cardinality(InsOf(i)) = 1
  /\ Cardinality(InsOf(j)) = 1
  /\ LET e == ins[CHOOSE n \in InsOf(i) : TRUE]
         q == ins[CHOOSE n \in InsOf(j) : TRUE]
     IN q.node.kind = "Directory" /\ e.parent = q.node.id

InsertedUnderRoot(i) ==
  /\ Cardinality(InsOf(i)) = 1
  /\ ins[CHOOSE n \in InsOf(i) : TRUE].parent = RootDir

\* C4: for every well-formed Unix-format input (each body line 4*d indentation
\* glyphs, a branch glyph, the connector, one space and a non-empty name, d = 0
\* on the first body line and growing by at most 1), UnixTree succeeds and each
\* node is a child of the node of the nearest preceding line of level d-1 (of
\* the root when d = 0).
C4_UnixShape ==
  (ct = "Unix" /\ pc \in {"done", "panic"} /\ RootLineRead /\ UnixInputWellFormed)
    => /\ Returned
       /\ err = Nil
       /\ \A i \in 2..Len(input) :
            IF UnixLevel(LineOf(i)) = 0 THEN InsertedUnderRoot(i)
            ELSE InsertedUnder(i, UnixParentLine(i))

\* ---- C5
TabCount(l) == Cardinality({i \in 1..Len(l) : l[i] = "tab"})

\* d tabs followed by a non-empty name, d the tab count of the line
TabLineWellFormed(l) ==
  /\ LeadingCount(l, {"tab"}) = TabCount(l)
  /\ Len(l) > TabCount(l)

TabInputWellFormed ==
  /\ BodyFromBuffer
  /\ \A i \in 2..Len(input) : TabLineWellFormed(LineOf(i))
  /\ Len(input) >= 2 => TabCount(LineOf(2)) = 0
  /\ \A i \in 2..(Len(input) - 1) : TabCount(LineOf(i + 1)) <= TabCount(LineOf(i)) + 1

\* C5: for every well-formed tab-format input (each body line is d tabs and a
\* non-empty name, d = 0 on the first body line and growing by at most 1),
\* TabTree succeeds, every line is inserted, and each node of the resulting
\* tree lies d directories below the root, d the tab count of its line.
C5_TabDepth ==
  (ct = "Tab" /\ pc \in {"done", "panic"} /\ RootLineRead /\ TabInputWellFormed)
    => /\ Returned
       /\ err = Nil
       /\ \A i \in 2..Len(input) :
            /\ InsOf(i) # {}
            /\ \A n \in InsOf(i) :
                 ins[n].parent \in InTree(heap, RootDir)
                   => ins[n].parent \in AtDepth(heap, RootDir, TabCount(LineOf(i)))

\* a build of three lines at tab counts 0, 1, 2, the last one two levels down
C5_Witness ==
  /\ ct = "Tab" /\ Returned /\ RootLineRead /\ TabInputWellFormed
  /\ Len(input) = 4
  /\ TabCount(LineOf(4)) = 2
  /\ \E n \in InsOf(4) : ins[n].parent \in AtDepth(heap, RootDir, 2)

\* ---- C6
RECURSIVE StripSeparators(_)
StripSeparators(nm) ==
  IF nm # <<>> /\ nm[Len(nm)] = "sl" THEN StripSeparators(SubSeq(nm, 1, Len(nm) - 1)) ELSE nm

\* the name the parser gave the line of chunk i, less its trailing separators
OwnName(i) == StripSeparators(calls[CHOOSE j \in CallsOf(i) : TRUE].ret.name)

\* C6: for every successful build, each body line before the first blank line
\* (or the end of the stream) is inserted exactly once, into one parent
\* directory, under its own name.
C6_EachLineInsertedOnce ==
  (Returned /\ err = Nil /\ RootLineRead)
    => \A i \in BodyLines :
         /\ Cardinality(CallsOf(i)) = 1
         /\ Cardinality(InsOf(i)) = 1
         /\ ins[CHOOSE n \in InsOf(i) : TRUE].key = OwnName(i)

\* ---- C7
\* C7: when the first line is the path a/b, the returned tree holds only a at
\* its top level, b inside a, and every body line of depth 0 that names a node
\* is inserted into b.
C7_ExplicitRoot ==
  (Returned /\ err = Nil /\ RootLineRead /\ LineOf(1) = <<"a", "sl", "b">>)
    => /\ DOMAIN heap[FsTree] = {<<"a">>}
       /\ heap[FsTree][<<"a">>].kind = "Directory"
       /\ <<"b">> \in DOMAIN heap[heap[FsTree][<<"a">>].id]
       /\ heap[heap[FsTree][<<"a">>].id][<<"b">>].kind = "Directory"
       /\ \A j \in 1..Len(calls) :
            (calls[j].ret.depth = 0 /\ calls[j].ret.name # <<>>)
              => /\ InsOf(calls[j].chunk) # {}
                 /\ \A n \in InsOf(calls[j].chunk) : ins[n].parent = RootDir

\* ---- C8
\* C8: a whitespace-only body line ends the build with a nil error: the node
\* buffered from the line before it is inserted, and no line from the blank
\* one on is passed to the parser or inserted.
C8_BlankLineEndsBuild ==
  (FirstBlank <= Len(input) /\ input[FirstBlank].data # <<>> /\ pos >= FirstBlank)
    => /\ Returned
       /\ err = Nil
       /\ \A j \in 1..Len(calls) : calls[j].chunk < FirstBlank
       /\ \A n \in 1..Len(ins) : ins[n].chunk < FirstBlank
       /\ (\E j \in CallsOf(FirstBlank - 1) : calls[j].ret.name # <<>>)
            => InsOf(FirstBlank - 1) # {}

\* a line, a blank line, a third line: the first is inserted, the third dropped
C8_Witness ==
  /\ Returned
  /\ Len(input) = 4
  /\ FirstBlank = 3
  /\ input[3].data = <<"sp", "nl">>
  /\ ~WhitespaceOnly(input[4].data)
  /\ InsOf(2) # {}
  /\ pos = 4

\* ---- C9
\* a read of the build failed with an error that is not io.EOF
ReadFailed == \E i \in 1..Len(input) : input[i].err = ErrRead /\ i <= FirstBlank

\* C9: if a read fails with an error other than end-of-stream, at the root line
\* or at a body line, the build returns that error; clean end-of-stream after
\* the root line is never reported as an error.
C9_ReadErrorReturned ==
  /\ (Returned /\ ReadFailed) => err = ErrRead
  /\ (Returned /\ RootLineRead /\ BodyFromBuffer) => err.kind \notin {"EOF", "ErrUnexpectedEOF"}

\* ---- C10
\* C10: the parser is only ever invoked with a non-empty line without trailing
\* whitespace, which is a body line of the stream less its trailing
\* whitespace; never for the root line, a whitespace-only line or at end of
\* stream.
C10_ParserArgs ==
  \A j \in 1..Len(calls) :
    LET c == calls[j]
    IN /\ c.arg # <<>>
       /\ c.arg[Len(c.arg)] \notin Whitespace
       /\ c.chunk = j + 1
       /\ c.chunk <= Len(input)
       /\ ~WhitespaceOnly(input[c.chunk].data)
       /\ Len(c.arg) <= Len(input[c.chunk].data)
       /\ SubSeq(input[c.chunk].data, 1, Len(c.arg)) = c.arg
       /\ WhitespaceOnly(SubSeq(input[c.chunk].data, Len(c.arg) + 1, Len(input[c.chunk].data)))

\* two lines parsed, then a blank line that is not
C10_Witness ==
  /\ Returned
  /\ Len(calls) = 2
  /\ Len(input) = 4
  /\ input[4].data = <<"sp", "nl">>
  /\ calls[2].arg # input[3].data

\* ---- C11
\* C11: when the first line is exactly "." (newline-terminated), the root used
\* for insertion is the top-level Directory of the Tree and the path-creation /
\* path-lookup branch is not taken; the branch is taken only when the first
\* line is something other than ".".
C11_DotRootSkipsPathBranch ==
  (pc # "start" /\ RootLineRead)
    => /\ LineOf(1) = <<"dot">> => paths = <<>>
       /\ (LineOf(1) = <<"dot">> /\ pos = 1) => (dir = FsTree /\ glob = <<FsTree>>)
       /\ paths # <<>> => LineOf(1) # <<"dot">>

\* ---- C12
\* C12: every error aborts the build where it occurs and no partial tree is
\* returned: when the build returns a non-nil error the returned tree holds no
\* node, and once a line has produced an error no later line is parsed or
\* inserted.
C12_ErrorAborts ==
  /\ (Returned /\ err # Nil) => heap[FsTree] = EmptyDirectory
  /\ \A j \in 1..Len(calls) :
       calls[j].ret.err # Nil
         => /\ \A k \in 1..Len(calls) : calls[k].chunk <= calls[j].chunk
            /\ \A n \in 1..Len(ins) : ins[n].chunk <= calls[j].chunk

\* ---- C13
\* the call that parsed the line of chunk i
CallOf(i) == calls[CHOOSE j \in CallsOf(i) : TRUE]

EndsWithSeparator(nm) == nm # <<>> /\ nm[Len(nm)] = "sl"

\* the line after chunk i was parsed, with a greater depth
NextIsDeeper(i) == CallsOf(i + 1) # {} /\ CallOf(i + 1).ret.depth > CallOf(i).ret.depth

InBuild == pc \in {"loop", "done", "panic"} /\ RootLineRead

ParentDir(h, x) == CHOOSE y \in 1..Len(h) : x \in SubDirs(h, y)

\* the ancestor k levels above x in the chain of open directories, the root
\* when fewer than k levels are open
RECURSIVE Up(_, _, _, _)
Up(h, x, k, root) ==
  IF k = 0 \/ x = root THEN x ELSE Up(h, ParentDir(h, x), k - 1, root)

\* an iteration that parses a line less deep than the buffered node
AscentStep == pc = "loop" /\ pos' = pos + 1 /\ prevName # <<>> /\ depth' < prevDepth

\* C15: on an ascent the buffered node is first inserted into the current
\* directory, then the current directory becomes the ancestor
\* prevDepth - depth levels above it, or the root when fewer levels are open.
C15_AscentTarget ==
  [][AscentStep
       => /\ pc' # "panic"
          /\ Len(ins') = Len(ins) + 1
          /\ ins'[Len(ins')].parent = dir
          /\ ins'[Len(ins')].chunk = pos
          /\ dir' = Up(heap, dir, prevDepth - depth', RootDir)]_vars

\* ---- C16
\* C16: the Tab strategy returns, for every non-empty line, the number of tabs
\* that prefix the line as depth and the line less exactly those tabs as name,
\* and never an error.
C16_TabPrefix ==
  ct = "Tab" =>
    \A j \in 1..Len(calls) :
      LET p == calls[j].arg
          d == LeadingCount(p, {"tab"})
      IN /\ calls[j].ret.depth = d
         /\ calls[j].ret.name = SubSeq(p, d + 1, Len(p))
         /\ calls[j].ret.err = Nil

\* ---- C17
\* a step of the build can be taken: a read of the root line or an iteration
CanStep == pc \in {"start", "loop"}

\* C17: the build never stops short of returning (a tree or an error); its
\* j-th loop iteration that goes on consumed exactly the next line of the
\* stream, a line that is not blank, so the iterations are bounded by the
\* lines of the stream and none happens after a blank line or the end of the
\* stream.
C17_Terminates ==
  /\ Returned \/ CanStep
  /\ \A j \in 1..Len(calls) :
       /\ calls[j].chunk = j + 1
       /\ j + 1 <= Len(input)
       /\ ~WhitespaceOnly(input[j + 1].data)
  /\ pc = "loop" => pos = Len(calls) + 1

\* ---- C18
\* the line parsed last is buffered and the parser gave it no name
EmptyNameBuffered ==
  pc = "loop" /\ calls # <<>> /\ calls[Len(calls)].ret.name = <<>>

InsAt(x, k) == {n \in 1..Len(ins) : ins[n].parent = x /\ ins[n].key = k}

\* the entries of the tree: one per directory of the tree and name in it
Entries == UNION {{<<x, k>> : k \in DOMAIN heap[x]} : x \in InTree(heap, FsTree)}

\* C19: when two body lines are inserted under the same name into the same
\* directory, the entry of that name is the node of the later insertion, a
\* node of its own, and a directory inserted by the earlier one is no longer
\* in the tree; so a name has one entry in a directory, the last one inserted.
C19_LaterReplaces ==
  \A m \in 1..Len(ins) : \A n \in 1..Len(ins) :
    (m < n /\ n \in InsAt(ins[m].parent, ins[m].key))
      => /\ ins[m].node.kind = "Directory"
              => /\ ins[m].node.id \notin InTree(heap, FsTree)
                 /\ ins[n].node # ins[m].node
         /\ (\A l \in InsAt(ins[m].parent, ins[m].key) : l <= n)
              => heap[ins[n].parent][ins[n].key] = ins[n].node

\* three body lines are inserted, the third replaces the first with the
\* subtree built under it, and the returned tree has one node
C19_Witness ==
  /\ Returned
  /\ err = Nil
  /\ Len(ins) = 3
  /\ ins[1].parent = FsTree
  /\ ins[1].node.kind = "Directory"
  /\ ins[2].parent = ins[1].node.id
  /\ 3 \in InsAt(ins[1].parent, ins[1].key)
  /\ Cardinality(Entries) = 1

====
